---- MODULE Spec2Model ----
(***************************************************************************)
(* Model of the authentication and notebook layer of open-notebook:        *)
(*   open_notebook/domain/user.py     User domain object                    *)
(*   open_notebook/utils/jwt_auth.py  JWT issue / verify helpers            *)
(*   api/auth.py                      PasswordAuthMiddleware                *)
(*   api/routers/auth.py              register, login, profile, password    *)
(*   api/routers/notebooks.py         notebook CRUD and source linking      *)
(*                                                                         *)
(* Strings whose content the code inspects (usernames, e-mails, passwords, *)
(* authorization schemes) are sequences of one-character strings, so that  *)
(* lower(), strip(), len() and split() are computed and not assumed.       *)
(* An Optional[...] value is a set with at most one element; {} is None.   *)
(***************************************************************************)
EXTENDS Integers, Sequences, FiniteSets, TLC

VARIABLES
    users,        \* the "user" table: a set of user records
    nextUserId,   \* number of user records created so far
    self,         \* the User instance held by the caller (Optional)
    lastSet,      \* history: user id -> password most recently set
    clock,        \* wall-clock time, in ticks of 1/TicksPerSecond second
    issued,       \* history: the calls of create_access_token and their tokens
    mw_password,  \* PasswordAuthMiddleware.password (Optional)
    inflight,     \* the calls suspended at an await: call -> where it stands
    notebooks,    \* the "notebook" table
    nextNotebookId,
    edges,        \* the "reference" relation: edge records with in and out
    last          \* the most recent call: its arguments and its outcome

userVars == <<users, nextUserId, self, lastSet>>

jwtVars == <<clock, issued>>

\* what no handler assigns: the middleware's setting, the suspended calls
authVars == <<mw_password, inflight>>

notebookVars == <<notebooks, nextNotebookId, edges>>

vars == <<users, nextUserId, self, lastSet, clock, issued, mw_password, inflight,
          notebooks, nextNotebookId, edges, last>>

----------------------------------------------------------------------------
(* Python str operations                                                   *)

UpperLetters ==
    <<"A","B","C","D","E","F","G","H","I","J","K","L","M",
      "N","O","P","Q","R","S","T","U","V","W","X","Y","Z">>

LowerLetters ==
    <<"a","b","c","d","e","f","g","h","i","j","k","l","m",
      "n","o","p","q","r","s","t","u","v","w","x","y","z">>

Digits == {"0","1","2","3","4","5","6","7","8","9"}

Range(s) == {s[i] : i \in DOMAIN s}

\* the lower-case letter of every upper-case letter
ToLower ==
    [c \in Range(UpperLetters) |->
        LowerLetters[CHOOSE i \in DOMAIN UpperLetters : UpperLetters[i] = c]]

\* str.lower() on one character
LowerChar(c) == IF c \in DOMAIN ToLower THEN ToLower[c] ELSE c

\* str.lower()
Lower(s) == [i \in DOMAIN s |-> LowerChar(s[i])]

\* str.isspace() on one character
IsSpace(c) == c = " "

AlnumChars == Range(UpperLetters) \cup Range(LowerLetters) \cup Digits

\* str.isalnum() on one character
IsAlnum(c) == c \in AlnumChars

RECURSIVE LStrip(_)
LStrip(s) == IF s # <<>> /\ IsSpace(Head(s)) THEN LStrip(Tail(s)) ELSE s

RECURSIVE RStrip(_)
RStrip(s) ==
    IF s # <<>> /\ IsSpace(s[Len(s)]) THEN RStrip(SubSeq(s, 1, Len(s) - 1)) ELSE s

\* str.strip()
Strip(s) == RStrip(LStrip(s))

----------------------------------------------------------------------------
(* bcrypt, as used by User.hash_password and User.verify_password.  The    *)
(* hash string carries its salt; checking recomputes the hash under that   *)
(* salt.  The digest is taken to be collision-free.                        *)

BcryptPrefix == "$2b$"

\* bcrypt.hashpw(password, salt)
hashpw(password, salt) == <<BcryptPrefix, salt>> \o password

\* bcrypt.checkpw(password, hashed); raises ValueError for a string that is
\* no bcrypt hash
checkpw(password, hashed) ==
    IF Len(hashed) < 2 \/ hashed[1] # BcryptPrefix
    THEN [raised |-> "ValueError", value |-> FALSE]
    ELSE [raised |-> "", value |-> hashpw(password, hashed[2]) = hashed]

----------------------------------------------------------------------------
(* open_notebook/domain/user.py                                            *)

MinPasswordLen == 6
MinUsernameLen == 3
MaxUsernameLen == 50

NoId == ""

NewUserId(n) == "user:" \o ToString(n)

\* pydantic's EmailStr: surrounding whitespace is dropped, then the address
\* must have one "@" with text on both sides.
EmailStr(v) ==
    LET e == Strip(v)
        ats == {i \in DOMAIN e : e[i] = "@"}
    IN  IF Cardinality(ats) = 1 /\ 1 \notin ats /\ Len(e) \notin ats
           /\ \A i \in DOMAIN e : ~IsSpace(e[i])
        THEN [ok |-> TRUE, value |-> e]
        ELSE [ok |-> FALSE, value |-> e]

username_must_be_valid(v) ==
    IF v = <<>> \/ Strip(v) = <<>> THEN [ok |-> FALSE, value |-> v]
    ELSE IF Len(v) < MinUsernameLen THEN [ok |-> FALSE, value |-> v]
    ELSE IF Len(v) > MaxUsernameLen THEN [ok |-> FALSE, value |-> v]
    ELSE IF ~ \A i \in DOMAIN v : IsAlnum(v[i]) \/ v[i] \in {"_", "-"}
         THEN [ok |-> FALSE, value |-> v]
    ELSE [ok |-> TRUE, value |-> Lower(Strip(v))]

email_must_be_valid(v) ==
    IF v = <<>> \/ Strip(v) = <<>> THEN [ok |-> FALSE, value |-> v]
    ELSE [ok |-> TRUE, value |-> Lower(Strip(v))]

\* "SELECT * FROM user WHERE username = $username" with username.lower()
get_by_username(table, username) ==
    {u \in table : u.username = Lower(username)}

\* "SELECT * FROM user WHERE email = $email" with email.lower()
get_by_email(table, email) ==
    {u \in table : u.email = Lower(email)}

\* ObjectModel.save: insert under a fresh id, or replace the record of that id
save(table, obj, n) ==
    IF obj.id = NoId
    THEN table \cup {[obj EXCEPT !.id = NewUserId(n)]}
    ELSE {r \in table : r.id # obj.id} \cup {obj}

\* hash_password with the length test dropped: only the empty password fails
hash_password_no_length_check(password, salt) ==
    IF password = <<>>
    THEN [raised |-> "InvalidInputError", value |-> <<>>]
    ELSE [raised |-> "", value |-> hashpw(password, salt)]

\* User.hash_password: the hash, or InvalidInputError
hash_password(password, salt) ==
    IF password = <<>> \/ Len(password) < MinPasswordLen
    THEN [raised |-> "InvalidInputError", value |-> <<>>]
    ELSE [raised |-> "", value |-> hashpw(password, salt)]

\* User.verify_password: any exception of checkpw is turned into False
verify_password(user, password) ==
    LET r == checkpw(password, user.password_hash)
    IN  IF r.raised # "" THEN FALSE ELSE r.value

\* User(...): the field validators run on construction
User(username, email, password_hash, is_admin) ==
    LET un == username_must_be_valid(username)
        es == EmailStr(email)
        em == email_must_be_valid(es.value)
    IN  IF ~un.ok THEN [raised |-> "InvalidInputError", value |-> {}]
        ELSE IF ~es.ok THEN [raised |-> "ValidationError", value |-> {}]
        ELSE IF ~em.ok THEN [raised |-> "InvalidInputError", value |-> {}]
        ELSE [raised |-> "",
              value |-> {[id |-> NoId, username |-> un.value, email |-> em.value,
                          password_hash |-> password_hash, is_active |-> TRUE,
                          is_admin |-> is_admin, last_login |-> {}]}]

\* User.create_user as a function of the table: what it raises, the user it
\* returns and the table it leaves
create_user_result(table, n, username, email, password, is_admin, salt) ==
    LET existing_user == get_by_username(table, username)
        existing_email == get_by_email(table, email)
        ph == hash_password(password, salt)
        obj == User(Lower(username), Lower(email), ph.value, is_admin)
        failed(e) == [raised |-> e, user |-> {}, table |-> table, n |-> n]
    IN  IF existing_user # {} THEN failed("InvalidInputError")
        ELSE IF existing_email # {} THEN failed("InvalidInputError")
        ELSE IF ph.raised # "" THEN failed(ph.raised)
        ELSE IF obj.raised # "" THEN failed(obj.raised)
        ELSE LET u == CHOOSE x \in obj.value : TRUE
                 t == save(table, u, n + 1)
             IN  [raised |-> "", user |-> {[u EXCEPT !.id = NewUserId(n + 1)]},
                  table |-> t, n |-> n + 1]

----------------------------------------------------------------------------
(* open_notebook/utils/jwt_auth.py                                         *)
(*                                                                         *)
(* A credential is what a caller can present as a token: a signed JWT      *)
(* (kind "jwt": its payload and the key it was signed with), a string that *)
(* is no JWT (kind "text") or a value that is no string (kind "nonstr").   *)

JWT_SECRET_KEY == "change-me-in-production-please-use-a-secure-random-key"
JWT_EXPIRATION_HOURS == 168
SecondsPerHour == 3600

\* resolution of the model's clock
TicksPerSecond == 2

\* timedelta(hours=h), in ticks
HoursDelta(h) == h * SecondsPerHour * TicksPerSecond

\* timegm(d.utctimetuple()): a datetime as whole seconds
NumericDate(d) == d \div TicksPerSecond

NoPayload == [sub |-> "", username |-> <<>>, exp |-> 0, iat |-> 0]

Jwt(payload, key) ==
    [kind |-> "jwt", payload |-> payload, key |-> key, text |-> <<>>]

Text(t) == [kind |-> "text", payload |-> NoPayload, key |-> "", text |-> t]

NonString == [kind |-> "nonstr", payload |-> NoPayload, key |-> "", text |-> <<>>]

\* jose.jwt.encode: datetime claims become whole seconds, the result is signed
jwt_encode(payload, key) ==
    Jwt([payload EXCEPT !.exp = NumericDate(payload.exp),
                        !.iat = NumericDate(payload.iat)], key)

\* jose.jwt.decode at time `now`: the payload, or the exception raised
jwt_decode(token, key, now) ==
    IF token.kind = "nonstr"
    THEN [raised |-> "AttributeError", payload |-> NoPayload]
    ELSE IF token.kind # "jwt"
    THEN [raised |-> "JWTError", payload |-> NoPayload]
    ELSE IF token.key # key
    THEN [raised |-> "JWTError", payload |-> NoPayload]
    ELSE IF token.payload.exp < NumericDate(now)
    THEN [raised |-> "ExpiredSignatureError", payload |-> NoPayload]
    ELSE [raised |-> "", payload |-> token.payload]

\* the exceptions that are JWTError or a subclass of it
JWTErrors == {"JWTError", "ExpiredSignatureError", "JWTClaimsError"}

\* create_access_token with the lifetime left out: expires_at is utcnow()
create_access_token_no_lifetime(user_id, username, now) ==
    LET expires_at == now
        payload == [sub |-> user_id, username |-> username,
                    exp |-> expires_at, iat |-> now]
    IN  jwt_encode(payload, JWT_SECRET_KEY)

\* create_access_token with timedelta(minutes=...) in place of hours
create_access_token_minutes(user_id, username, now) ==
    LET expires_at == now + (HoursDelta(JWT_EXPIRATION_HOURS) \div 60)
        payload == [sub |-> user_id, username |-> username,
                    exp |-> expires_at, iat |-> now]
    IN  jwt_encode(payload, JWT_SECRET_KEY)

\* create_access_token called at time `now`
create_access_token_at(user_id, username, now) ==
    LET expires_at == now + HoursDelta(JWT_EXPIRATION_HOURS)
        payload == [sub |-> user_id, username |-> username,
                    exp |-> expires_at, iat |-> now]
    IN  jwt_encode(payload, JWT_SECRET_KEY)

\* verify_token without its second handler, "except Exception"
verify_token_only_JWTError(token, now) ==
    LET d == jwt_decode(token, JWT_SECRET_KEY, now)
    IN  IF d.raised = "" THEN [raised |-> "", value |-> {d.payload}]
        ELSE IF d.raised \in JWTErrors THEN [raised |-> "", value |-> {}]
        ELSE [raised |-> d.raised, value |-> {}]

\* verify_token at time `now`: Optional payload, and what escapes as exception
verify_token_at(token, now) ==
    LET d == jwt_decode(token, JWT_SECRET_KEY, now)
    IN  IF d.raised = "" THEN [raised |-> "", value |-> {d.payload}]
        ELSE IF d.raised \in JWTErrors THEN [raised |-> "", value |-> {}]
        ELSE [raised |-> "", value |-> {}]

\* get_user_id_from_token at time `now`: Optional sub
get_user_id_from_token_at(token, now) ==
    LET payload == verify_token_at(token, now).value
    IN  IF payload # {} THEN {p.sub : p \in payload} ELSE {}

\* get_username_from_token at time `now`: Optional username
get_username_from_token_at(token, now) ==
    LET payload == verify_token_at(token, now).value
    IN  IF payload # {} THEN {p.username : p \in payload} ELSE {}

----------------------------------------------------------------------------
(* Inputs offered to the user operations                                   *)

MaxUsers == 2

\* the calls that can run at the same time, and a call that is not running
Calls == {"call:1", "call:2"}

Idle == [pc |-> "idle"]

Usernames ==
    { <<"b","o","b">>, <<"B","o","b">>, <<"a","m","y">>, <<"a","l">> }

Emails ==
    { <<"a","@","x">>, <<"A","@","x">>, <<" ","a","@","x">>, <<"b","@","x">> }

Passwords ==
    { <<>>, <<"a","b","c","d","e">>, <<"a","b","c","d","e","f">>,
      <<"s","e","c","r","e","t","7">> }

Salts == {"s1", "s2"}

----------------------------------------------------------------------------
(* The user operations as steps of a caller that runs them one at a time   *)

Init ==
    /\ users = {}
    /\ nextUserId = 0
    /\ self = {}
    /\ lastSet = <<>>
    /\ clock = 0
    /\ issued = {}
    /\ mw_password = {}
    /\ inflight = [c \in Calls |-> Idle]
    /\ notebooks = {}
    /\ nextNotebookId = 0
    /\ edges = {}
    /\ last = [op |-> "init"]

create_user(username, email, password, salt) ==
    \E r \in {create_user_result(users, nextUserId, username, email, password,
                                  FALSE, salt)} :
        /\ Cardinality(users) < MaxUsers
        /\ users' = r.table
        /\ nextUserId' = r.n
        /\ self' = IF r.raised = "" THEN r.user ELSE self
        /\ lastSet' = IF r.raised = ""
                      THEN (NewUserId(r.n) :> password) @@ lastSet
                      ELSE lastSet
        /\ last' = [op |-> "create_user", username |-> username,
                    email |-> email, password |-> password,
                    raised |-> r.raised]
        /\ UNCHANGED <<jwtVars, authVars, notebookVars>>

\* the caller picks up a stored user: User.get_by_username
load_user(username) ==
    /\ \E u \in get_by_username(users, username) : self' = {u}
    /\ last' = [op |-> "get_by_username", username |-> username, raised |-> ""]
    /\ UNCHANGED <<users, nextUserId, lastSet>>
    /\ UNCHANGED <<jwtVars, authVars, notebookVars>>

\* update_password without its "await self.save()"
update_password_no_save(new_password, salt) ==
    \E u \in self :
        LET ph == hash_password(new_password, salt)
            obj == [u EXCEPT !.password_hash = ph.value]
        IN  /\ IF ph.raised # ""
               THEN UNCHANGED <<users, self, lastSet>>
               ELSE /\ self' = {obj}
                    /\ users' = users
                    /\ lastSet' = (u.id :> new_password) @@ lastSet
            /\ last' = [op |-> "update_password", id |-> u.id,
                        password |-> new_password, previous |-> lastSet[u.id],
                        raised |-> ph.raised]
            /\ UNCHANGED <<nextUserId, jwtVars, authVars, notebookVars>>

update_password(new_password, salt) ==
    \E u \in self :
        LET ph == hash_password(new_password, salt)
            obj == [u EXCEPT !.password_hash = ph.value]
        IN  /\ IF ph.raised # ""
               THEN UNCHANGED <<users, self, lastSet>>
               ELSE /\ self' = {obj}
                    /\ users' = save(users, obj, nextUserId)
                    /\ lastSet' = (u.id :> new_password) @@ lastSet
            /\ last' = [op |-> "update_password", id |-> u.id,
                        password |-> new_password, previous |-> lastSet[u.id],
                        raised |-> ph.raised]
            /\ UNCHANGED <<nextUserId, jwtVars, authVars, notebookVars>>

\* deactivate without its "await self.save()"
deactivate_no_save ==
    \E u \in self :
        LET obj == [u EXCEPT !.is_active = FALSE]
        IN  /\ self' = {obj}
            /\ users' = users
            /\ last' = [op |-> "deactivate", id |-> u.id, raised |-> ""]
            /\ UNCHANGED <<nextUserId, lastSet, jwtVars, authVars, notebookVars>>

deactivate ==
    \E u \in self :
        LET obj == [u EXCEPT !.is_active = FALSE]
        IN  /\ self' = {obj}
            /\ users' = save(users, obj, nextUserId)
            /\ last' = [op |-> "deactivate", id |-> u.id, raised |-> ""]
            /\ UNCHANGED <<nextUserId, lastSet, jwtVars, authVars, notebookVars>>

activate ==
    \E u \in self :
        LET obj == [u EXCEPT !.is_active = TRUE]
        IN  /\ self' = {obj}
            /\ users' = save(users, obj, nextUserId)
            /\ last' = [op |-> "activate", id |-> u.id, raised |-> ""]
            /\ UNCHANGED <<nextUserId, lastSet, jwtVars, authVars, notebookVars>>

NextUser ==
    \/ \E un \in Usernames, em \in Emails, pw \in Passwords, salt \in Salts :
           create_user(un, em, pw, salt)
    \/ \E un \in Usernames : load_user(un)
    \/ \E pw \in Passwords, salt \in Salts : update_password(pw, salt)

Spec == Init /\ [][NextUser]_vars

----------------------------------------------------------------------------
(* Properties of the user operations                                       *)

\* two texts are equal when compared case-insensitively
SameIgnoringCase(a, b) == Lower(a) = Lower(b)

\* C2 (first half): a create_user call whose username or email equals, compared
\* case-insensitively, that of a stored user raises InvalidInputError and leaves
\* the stored users unchanged.
C2_DuplicateRejected ==
    [][ (/\ last'.op = "create_user"
         /\ \E u \in users : \/ SameIgnoringCase(u.username, last'.username)
                             \/ SameIgnoringCase(u.email, last'.email))
        => (last'.raised = "InvalidInputError" /\ users' = users) ]_vars

\* C2: after any sequence of create_user calls run one at a time, no two stored
\* users share a username and no two stored users share an email.
C2_NoSharedUsernameOrEmail ==
    \A u \in users : \A v \in users :
        u.id # v.id => (u.username # v.username /\ u.email # v.email)

\* C3: create_user and update_password reject every password that is empty or
\* shorter than 6 characters with InvalidInputError; create_user then stores no
\* user and update_password leaves the password hash unchanged, in the instance
\* and in the table.
C3_ShortPasswordRejected ==
    [][ (/\ last'.op \in {"create_user", "update_password"}
         /\ (last'.password = <<>> \/ Len(last'.password) < 6))
        => (/\ last'.raised = "InvalidInputError"
            /\ users' = users
            /\ self' = self) ]_vars

C3_Witness ==
    /\ last.op = "update_password"
    /\ Len(last.password) = 5
    /\ last.raised = "InvalidInputError"
    /\ \E u \in users : u.id = last.id /\ verify_password(u, lastSet[u.id])

\* C4: for a user whose password was most recently set to p by create_user or
\* update_password, verify_password(q) is true exactly when q = p, for the
\* stored record and for the instance in hand, and the hash is never the
\* plaintext password.
C4_VerifyRoundTrip ==
    \A u \in users \cup self :
        /\ \A q \in Passwords : verify_password(u, q) <=> (q = lastSet[u.id])
        /\ u.password_hash # lastSet[u.id]

C4_Witness ==
    /\ last.op = "update_password"
    /\ last.raised = ""
    /\ last.previous # last.password
    /\ \E u \in users :
        /\ u.id = last.id
        /\ verify_password(u, last.password)
        /\ ~verify_password(u, last.previous)

----------------------------------------------------------------------------
(* The token helpers as steps, with time passing between the calls         *)

MaxTokens == 1
MaxDrift == 6

TokenUserIds == {"user:1", "user:2"}

TokenUsernames == { <<"b","o","b">>, <<"a","m","y">> }

\* the clock moves by one tick or by the whole token lifetime
ClockSteps == {1, HoursDelta(JWT_EXPIRATION_HOURS)}

MaxClock == HoursDelta(JWT_EXPIRATION_HOURS) + MaxDrift

\* a token an outsider made: any payload, but not signed with JWT_SECRET_KEY
Forged ==
    { Jwt([sub |-> id, username |-> <<"b","o","b">>,
           exp |-> NumericDate(2 * MaxClock), iat |-> 0], "attacker-key")
        : id \in TokenUserIds }

Malformed == { Text(<<"x",".","y",".","z">>), Text(<<>>), NonString }

IssuedTokens == {i.token : i \in issued}

Presented == IssuedTokens \cup Forged \cup Malformed

create_access_token(user_id, username) ==
    /\ Cardinality(issued) < MaxTokens
    /\ \E token \in {create_access_token_at(user_id, username, clock)} :
        /\ issued' = issued \cup {[user_id |-> user_id, username |-> username,
                                   at |-> clock, token |-> token]}
        /\ last' = [op |-> "create_access_token", token |-> token, raised |-> ""]
    /\ UNCHANGED <<clock, userVars, authVars, notebookVars>>

verify_token(token) ==
    /\ \E r \in {verify_token_at(token, clock)} :
        last' = [op |-> "verify_token", token |-> token,
                 raised |-> r.raised, value |-> r.value]
    /\ UNCHANGED <<jwtVars, userVars, authVars, notebookVars>>

get_user_id_from_token(token) ==
    /\ last' = [op |-> "get_user_id_from_token", token |-> token,
                raised |-> verify_token_at(token, clock).raised,
                value |-> get_user_id_from_token_at(token, clock)]
    /\ UNCHANGED <<jwtVars, userVars, authVars, notebookVars>>

get_username_from_token(token) ==
    /\ last' = [op |-> "get_username_from_token", token |-> token,
                raised |-> verify_token_at(token, clock).raised,
                value |-> get_username_from_token_at(token, clock)]
    /\ UNCHANGED <<jwtVars, userVars, authVars, notebookVars>>

\* time passes; the clock is kept within MaxDrift ticks after a whole number
\* of token lifetimes
advance_clock(d) ==
    /\ clock + d <= MaxClock
    /\ (clock + d) % HoursDelta(JWT_EXPIRATION_HOURS) <= MaxDrift
    /\ clock' = clock + d
    /\ last' = [op |-> "advance_clock", raised |-> ""]
    /\ UNCHANGED <<issued, userVars, authVars, notebookVars>>

NextJwt ==
    \/ \E id \in TokenUserIds, un \in TokenUsernames : create_access_token(id, un)
    \/ \E t \in Presented : verify_token(t)
    \/ \E t \in Presented : get_user_id_from_token(t)
    \/ \E t \in Presented : get_username_from_token(t)
    \/ \E d \in ClockSteps : advance_clock(d)

SpecJwt == Init /\ [][NextJwt]_vars

----------------------------------------------------------------------------
(* Properties of the token helpers                                         *)

\* the lifetime the interface documents: 168 hours, in ticks
DocumentedLifetime == 168 * 3600 * TicksPerSecond

\* C5: for every user_id and username, verify_token of the token made by
\* create_access_token(user_id, username), evaluated before the token expires,
\* returns a payload with sub = user_id, username = username and with exp and
\* iat present; get_user_id_from_token returns user_id and
\* get_username_from_token returns username.
C5_TokenRoundTrip ==
    \A i \in issued :
        clock < i.at + DocumentedLifetime =>
            /\ verify_token_at(i.token, clock).raised = ""
            /\ verify_token_at(i.token, clock).value # {}
            /\ \A p \in verify_token_at(i.token, clock).value :
                /\ p.sub = i.user_id
                /\ p.username = i.username
                /\ {"exp", "iat"} \subseteq DOMAIN p
            /\ get_user_id_from_token_at(i.token, clock) = {i.user_id}
            /\ get_username_from_token_at(i.token, clock) = {i.username}

C5_Witness ==
    /\ last.op = "get_username_from_token"
    /\ \E i \in issued :
        /\ i.token = last.token
        /\ i.at < clock
        /\ last.value = {i.username}
        /\ i.username # <<"b","o","b">>

\* a token is past its expiry when the current whole second is after its exp
PastExpiry(token) == token.kind = "jwt" /\ token.payload.exp < NumericDate(clock)

\* C6: verify_token returns None and never raises for every token that is
\* malformed, was not signed with the configured key, or has expired;
\* get_user_id_from_token and get_username_from_token return None for it.
C6_InvalidTokenIsNone ==
    \A t \in Presented :
        (t \in Malformed \/ t \in Forged \/ PastExpiry(t)) =>
            /\ verify_token_at(t, clock) = [raised |-> "", value |-> {}]
            /\ get_user_id_from_token_at(t, clock) = {}
            /\ get_username_from_token_at(t, clock) = {}
            /\ (last.op \in {"verify_token", "get_user_id_from_token",
                             "get_username_from_token"} /\ last.token = t)
                   => (last.raised = "" /\ last.value = {})

C6_Witness ==
    /\ last.op = "verify_token"
    /\ last.token \in IssuedTokens
    /\ PastExpiry(last.token)
    /\ last.value = {}
    /\ last.raised = ""

\* verify_token accepts the token of an issue record at the current time
Accepted(i) == verify_token_at(i.token, clock).value # {}

\* C7 (as stated): a token issued at time t is accepted by verify_token at every
\* time strictly before t + 168 hours and rejected at every later time.
C7_RejectedAfterLifetime ==
    \A i \in issued :
        /\ clock < i.at + DocumentedLifetime => Accepted(i)
        /\ clock > i.at + DocumentedLifetime => ~Accepted(i)

\* C7 (amended): issue time and verification time count in whole seconds.  A
\* token issued at time t is accepted exactly while the current whole second is
\* not after the whole second of t plus 168 * 3600; so it is accepted at every
\* time strictly before t + 168 hours and rejected at every time from one
\* second after t + 168 hours on.
C7_ExpiryInWholeSeconds ==
    \A i \in issued :
        /\ Accepted(i) <=>
              (clock \div TicksPerSecond)
                  <= (i.at \div TicksPerSecond) + 168 * 3600
        /\ clock < i.at + DocumentedLifetime => Accepted(i)
        /\ clock >= i.at + DocumentedLifetime + TicksPerSecond => ~Accepted(i)

C7_Witness ==
    /\ last.op = "verify_token"
    /\ last.value # {}
    /\ \E i \in issued :
        /\ i.token = last.token
        /\ clock > i.at + DocumentedLifetime

----------------------------------------------------------------------------
(* api/auth.py: PasswordAuthMiddleware                                     *)
(*                                                                         *)
(* A request is its path, its method and its Authorization header          *)
(* (Optional).  A header string is kept as the text before its first       *)
(* space (scheme), whether it has a space at all (sep) and what follows    *)
(* the first space (cred), which is what split(" ", 1) takes it apart to.  *)

excluded_paths == {"/", "/health", "/docs", "/openapi.json", "/redoc"}

Header(scheme, sep, cred) == [scheme |-> scheme, sep |-> sep, cred |-> cred]

\* "not auth_header": the header is missing or is the empty string
HeaderIsFalsy(auth_header) ==
    \A h \in auth_header : h.scheme = <<>> /\ ~h.sep

\* auth_header.split(" ", 1) unpacked into (scheme, credentials), then the
\* scheme test: the credentials, or ValueError
ParseBearer(h) ==
    IF ~h.sep THEN [raised |-> "ValueError", credentials |-> Text(<<>>)]
    ELSE IF Lower(h.scheme) # <<"b","e","a","r","e","r">>
    THEN [raised |-> "ValueError", credentials |-> Text(<<>>)]
    ELSE [raised |-> "", credentials |-> h.cred]

\* User.get(user_id): None (or NotFoundError) when there is no such record
User_get(table, user_id) == {u \in table : u.id = user_id}

\* "not self.password": the variable is unset or is the empty string
PasswordIsFalsy(pw) == \A p \in pw : p = Text(<<>>)

Unauthorized(detail) ==
    [status |-> 401, forwarded |-> FALSE, detail |-> detail,
     state_set |-> FALSE, state_user |-> {}, state_user_id |-> {}]

\* call_next(request) when request.state was never assigned
CallNext_state_not_stored(state_set, user, user_id) ==
    [status |-> 200, forwarded |-> TRUE, detail |-> "",
     state_set |-> FALSE, state_user |-> {}, state_user_id |-> {}]

\* call_next(request) with request.state as it is at that point
CallNext(state_set, user, user_id) ==
    [status |-> 200, forwarded |-> TRUE, detail |-> "",
     state_set |-> state_set, state_user |-> user, state_user_id |-> user_id]

\* dispatch with "if user" in place of "if user and user.is_active"
dispatch_ignoring_is_active(request, pw, table, now) ==
    IF request.path \in excluded_paths THEN CallNext(FALSE, {}, {})
    ELSE IF request.method = "OPTIONS" THEN CallNext(FALSE, {}, {})
    ELSE IF HeaderIsFalsy(request.auth_header)
    THEN IF PasswordIsFalsy(pw)
         THEN CallNext(FALSE, {}, {})
         ELSE Unauthorized("Missing authorization header")
    ELSE LET h == CHOOSE x \in request.auth_header : TRUE
             parsed == ParseBearer(h)
             credentials == parsed.credentials
             user_id == get_user_id_from_token_at(credentials, now)
         IN  IF parsed.raised # ""
             THEN Unauthorized("Invalid authorization header format")
             ELSE IF user_id # {} /\ user_id # {""}
             THEN LET user == UNION {User_get(table, id) : id \in user_id}
                  IN  IF user # {}
                      THEN CallNext(TRUE, user, {u.id : u \in user})
                      ELSE Unauthorized("User account is inactive")
             ELSE IF ~PasswordIsFalsy(pw) /\ pw = {credentials}
             THEN CallNext(TRUE, {}, {})
             ELSE Unauthorized("Invalid credentials")

\* PasswordAuthMiddleware.dispatch
dispatch_result(request, pw, table, now) ==
    IF request.path \in excluded_paths THEN CallNext(FALSE, {}, {})
    ELSE IF request.method = "OPTIONS" THEN CallNext(FALSE, {}, {})
    ELSE IF HeaderIsFalsy(request.auth_header)
    THEN IF PasswordIsFalsy(pw)
         THEN CallNext(FALSE, {}, {})
         ELSE Unauthorized("Missing authorization header")
    ELSE LET h == CHOOSE x \in request.auth_header : TRUE
             parsed == ParseBearer(h)
             credentials == parsed.credentials
             user_id == get_user_id_from_token_at(credentials, now)
         IN  IF parsed.raised # ""
             THEN Unauthorized("Invalid authorization header format")
             ELSE IF user_id # {} /\ user_id # {""}
             THEN LET user == UNION {User_get(table, id) : id \in user_id}
                  IN  IF user # {} /\ \A u \in user : u.is_active
                      THEN CallNext(TRUE, user, {u.id : u \in user})
                      ELSE Unauthorized("User account is inactive")
             ELSE IF ~PasswordIsFalsy(pw) /\ pw = {credentials}
             THEN CallNext(TRUE, {}, {})
             ELSE Unauthorized("Invalid credentials")

----------------------------------------------------------------------------
(* The middleware in front of a running application: accounts are made,    *)
(* switched off and on, tokens are issued, time passes, requests arrive    *)

\* the accounts that register
Accounts ==
    { [username |-> <<"b","o","b">>, email |-> <<"b","@","x">>],
      [username |-> <<"a","m","y">>, email |-> <<"a","@","x">>] }

AccountPassword == <<"a","b","c","d","e","f">>

Secret == Text(<<"p","w">>)

\* OPEN_NOTEBOOK_PASSWORD set to a string that is itself a token
TokenSecret == create_access_token_at("user:2", <<"a","m","y">>, 0)

\* OPEN_NOTEBOOK_PASSWORD: unset, empty, a pass phrase, or a token string
PasswordSettings == { {}, {Text(<<>>)}, {Secret}, {TokenSecret} }

Schemes ==
    { <<"B","e","a","r","e","r">>, <<"b","e","a","r","e","r">>,
      <<"B","a","s","i","c">> }

Credentials ==
    IssuedTokens \cup {TokenSecret, Secret, Text(<<>>)}
        \cup {f \in Forged : f.payload.sub = "user:1"}

\* Authorization header values: none, "", "Bearer", and "<scheme> <credential>"
AuthHeaders ==
    { {} } \cup { {Header(<<>>, FALSE, Text(<<>>))} }
        \cup { {Header(<<"B","e","a","r","e","r">>, FALSE, Text(<<>>))} }
        \cup { {Header(sch, TRUE, c)} : sch \in Schemes, c \in Credentials }

Requests ==
    { [path |-> "/notebooks", method |-> "GET", auth_header |-> h]
        : h \in AuthHeaders }
    \cup { [path |-> "/health", method |-> "GET", auth_header |-> {}],
           [path |-> "/notebooks", method |-> "OPTIONS", auth_header |-> {}] }

InitAuth ==
    /\ users = {}
    /\ nextUserId = 0
    /\ self = {}
    /\ lastSet = <<>>
    /\ clock = 0
    /\ issued = {}
    /\ mw_password \in PasswordSettings
    /\ inflight = [c \in Calls |-> Idle]
    /\ notebooks = {}
    /\ nextNotebookId = 0
    /\ edges = {}
    /\ last = [op |-> "init"]

dispatch(request) ==
    /\ \E r \in {dispatch_result(request, mw_password, users, clock)} :
        last' = [op |-> "dispatch", request |-> request, raised |-> "",
                 status |-> r.status, forwarded |-> r.forwarded,
                 detail |-> r.detail, state_set |-> r.state_set,
                 state_user |-> r.state_user,
                 state_user_id |-> r.state_user_id]
    /\ UNCHANGED <<userVars, jwtVars, authVars, notebookVars>>

NextAuth ==
    \/ \E a \in Accounts :
           create_user(a.username, a.email, AccountPassword, "s1")
    \/ \E un \in {a.username : a \in Accounts} : load_user(un)
    \/ deactivate
    \/ activate
    \/ \E id \in TokenUserIds : create_access_token(id, <<"b","o","b">>)
    \/ advance_clock(HoursDelta(JWT_EXPIRATION_HOURS) + TicksPerSecond)
    \/ \E request \in Requests : dispatch(request)

SpecAuth == InitAuth /\ [][NextAuth]_vars

----------------------------------------------------------------------------
(* Properties of the middleware                                            *)

\* the header has the form "Bearer <credential>" (scheme in any case)
BearerForm(h) == h.sep /\ Lower(h.scheme) = <<"b","e","a","r","e","r">>

\* the credential is a JWT that verifies now and whose sub is a stored, active
\* user
ValidJwtOfActiveUser(c) ==
    \E p \in verify_token_at(c, clock).value :
        \E u \in users : u.id = p.sub /\ u.is_active

\* JWT verification of the credential yields no user id
YieldsNoUserId(c) ==
    \A p \in verify_token_at(c, clock).value : p.sub = ""

\* a shared secret is configured and the credential is exactly equal to it
IsTheSharedSecret(c) ==
    mw_password # {} /\ mw_password # {Text(<<>>)} /\ mw_password = {c}

\* the two ways the claim lets a request through
MayPass(request) ==
    \E h \in request.auth_header :
        /\ BearerForm(h)
        /\ \/ ValidJwtOfActiveUser(h.cred)
           \/ YieldsNoUserId(h.cred) /\ IsTheSharedSecret(h.cred)

\* what the claim says of one request
GateHolds(request) ==
    \A r \in {dispatch_result(request, mw_password, users, clock)} :
        /\ r.forwarded \/ r.status = 401
        /\ MayPass(request) \/ (r.status = 401 /\ ~r.forwarded)

\* C1 (as stated): for every request on a non-excluded path with a method other
\* than OPTIONS that carries an Authorization header, dispatch forwards the
\* request only if (a) the header is "Bearer <credential>" with a JWT that
\* verifies and whose sub is an existing active user, or (b) verification yields
\* no user id, a shared secret is configured and the credential equals it;
\* otherwise the response is 401 and the handler is not invoked.
C1_GateForEveryHeader ==
    \A request \in Requests :
        (/\ request.path \notin excluded_paths
         /\ request.method # "OPTIONS"
         /\ request.auth_header # {}) => GateHolds(request)

\* C1 (amended): the same, for every such request whose Authorization header is
\* not the empty string.
C1_GateForNonEmptyHeader ==
    \A request \in Requests :
        (/\ request.path \notin excluded_paths
         /\ request.method # "OPTIONS"
         /\ request.auth_header # {}
         /\ \A h \in request.auth_header : h.scheme # <<>> \/ h.sep)
            => GateHolds(request)

\* a token that verifies, of a stored user that is switched off, is turned away
\* although a shared secret is configured
C1_Witness ==
    /\ last.op = "dispatch"
    /\ last.status = 401
    /\ ~last.forwarded
    /\ mw_password = {Secret}
    /\ \E h \in last.request.auth_header :
        /\ BearerForm(h)
        /\ \E p \in verify_token_at(h.cred, clock).value :
            \E u \in users : u.id = p.sub /\ ~u.is_active

\* C14: a newly created user is active; deactivate() leaves the stored user
\* with is_active false and activate() with is_active true, also when it
\* already was, and neither changes another field of the user or another
\* user.
C14_ActivateDeactivate ==
    [][/\ (last'.op = "create_user" /\ last'.raised = "") =>
            /\ users' # users
            /\ \A u \in users' \ users : u.is_active
       /\ last'.op \in {"deactivate", "activate"} =>
            \E u \in users :
                /\ u.id = last'.id
                /\ users' = (users \ {u}) \cup
                     {[u EXCEPT !.is_active = (last'.op = "activate")]}]_vars

\* a stored user was switched off
C14_Witness ==
    /\ last.op = "deactivate"
    /\ \E u \in users : u.id = last.id /\ ~u.is_active
    /\ \E u \in users : u.id # last.id /\ u.is_active

\* C17: when OPEN_NOTEBOOK_PASSWORD is unset or empty, dispatch rejects no
\* request, whatever its Authorization header.
C17_InactiveWithoutPassword ==
    (last.op = "dispatch" /\ PasswordIsFalsy(mw_password)) =>
        (last.forwarded /\ last.status # 401)

\* the user id the request's own token names
TokenSub(request) ==
    UNION { get_user_id_from_token_at(h.cred, clock) \ {""} :
                h \in {x \in request.auth_header : BearerForm(x)} }

\* the request is one that dispatch tests the credential of
Authenticated(request) ==
    /\ request.path \notin excluded_paths
    /\ request.method # "OPTIONS"
    /\ ~HeaderIsFalsy(request.auth_header)

\* C20: a request forwarded on a JWT carries the token's sub as
\* request.state.user_id and that stored, active user as request.state.user;
\* a request forwarded on the shared secret carries None for both; no
\* forwarded request carries a user that its own token does not name.
C20_UserContextMatchesToken ==
    (last.op = "dispatch" /\ last.forwarded) =>
        /\ last.state_user_id \subseteq TokenSub(last.request)
        /\ \A u \in last.state_user :
              u \in users /\ u.is_active /\ last.state_user_id = {u.id}
        /\ (Authenticated(last.request) /\ TokenSub(last.request) # {}) =>
              /\ last.state_user_id = TokenSub(last.request)
              /\ last.state_user # {}
        /\ (Authenticated(last.request) /\ TokenSub(last.request) = {}) =>
              /\ last.state_user = {}
              /\ last.state_user_id = {}
              /\ \E h \in last.request.auth_header : IsTheSharedSecret(h.cred)

\* a request was forwarded with the user of its token while another user is
\* stored
C20_Witness ==
    /\ last.op = "dispatch"
    /\ last.forwarded
    /\ \E u \in last.state_user :
          /\ {u.id} = TokenSub(last.request)
          /\ \E v \in users : v.id # u.id

----------------------------------------------------------------------------
(* api/routers/auth.py                                                     *)
(*                                                                         *)
(* Each handler is a function of the user table, of request.state.user as  *)
(* the middleware left it, and of the request body.  A body field is the   *)
(* string the client sent.  A query with LIMIT 1 that matches several      *)
(* records may return any of them, so a handler that runs one has a set of *)
(* possible results.                                                       *)

\* user.update_last_login() at time `now`: the user as saved
update_last_login(user, now) == [user EXCEPT !.last_login = {now}]

\* POST /auth/register
register_user_result(table, n, username, email, password, salt, now) ==
    LET c == create_user_result(table, n, username, email, password, FALSE, salt)
        failed(status) == [status |-> status, token |-> {}, user |-> {},
                           table |-> table, n |-> n]
    IN  IF c.raised = "InvalidInputError" THEN failed(400)
        ELSE IF c.raised # "" THEN failed(500)
        ELSE LET user == CHOOSE x \in c.user : TRUE
                 token == create_access_token_at(user.id, user.username, now)
                 logged == update_last_login(user, now)
             IN  [status |-> 200, token |-> {token}, user |-> {logged},
                  table |-> save(c.table, logged, c.n), n |-> c.n]

\* login_found without "if not user.verify_password(...)"
login_found_no_password_check(table, n, user, password, now) ==
    IF ~user.is_active
    THEN [status |-> 401, token |-> {}, user |-> {}, table |-> table]
    ELSE LET token == create_access_token_at(user.id, user.username, now)
             logged == update_last_login(user, now)
         IN  [status |-> 200, token |-> {token}, user |-> {logged},
              table |-> save(table, logged, n)]

\* login_found without "if not user.is_active"
login_found_no_active_check(table, n, user, password, now) ==
    IF ~verify_password(user, password)
    THEN [status |-> 401, token |-> {}, user |-> {}, table |-> table]
    ELSE LET token == create_access_token_at(user.id, user.username, now)
             logged == update_last_login(user, now)
         IN  [status |-> 200, token |-> {token}, user |-> {logged},
              table |-> save(table, logged, n)]

\* what login_user does once it holds the record `user`
login_found(table, n, user, password, now) ==
    IF ~verify_password(user, password)
    THEN [status |-> 401, token |-> {}, user |-> {}, table |-> table]
    ELSE IF ~user.is_active
    THEN [status |-> 401, token |-> {}, user |-> {}, table |-> table]
    ELSE LET token == create_access_token_at(user.id, user.username, now)
             logged == update_last_login(user, now)
         IN  [status |-> 200, token |-> {token}, user |-> {logged},
              table |-> save(table, logged, n)]

\* POST /auth/login: credentials.username is looked up as a username first,
\* then as an email
login_user_results(table, n, username, password, now) ==
    LET by_username == get_by_username(table, username)
        found == IF by_username # {} THEN by_username
                 ELSE get_by_email(table, username)
    IN  IF found = {}
        THEN {[status |-> 401, token |-> {}, user |-> {}, table |-> table]}
        ELSE {login_found(table, n, user, password, now) : user \in found}

\* "if user_update.email:" and "if not user:"
IsFalsy(optional) == \A v \in optional : v = <<>>

\* GET /auth/me
get_current_user_result(state_user) ==
    IF state_user = {} THEN [status |-> 401, body |-> {}]
    ELSE [status |-> 200,
          body |-> {[id |-> u.id, username |-> u.username, email |-> u.email,
                     is_active |-> u.is_active, is_admin |-> u.is_admin]
                       : u \in state_user}]

\* PUT /auth/me with the body's email (Optional)
update_current_user_results(table, n, state_user, email) ==
    IF state_user = {} THEN {[status |-> 401, table |-> table]}
    ELSE LET user == CHOOSE u \in state_user : TRUE
         IN  IF IsFalsy(email)
             THEN {[status |-> 200, table |-> save(table, user, n)]}
             ELSE LET e == CHOOSE v \in email : TRUE
                      matches == get_by_email(table, e)
                      existing == IF matches = {} THEN { {} }
                                  ELSE {{x} : x \in matches}
                  IN  { IF \E x \in existing_user : x.id # user.id
                        THEN [status |-> 400, table |-> table]
                        ELSE [status |-> 200,
                              table |-> save(table, [user EXCEPT !.email = e], n)]
                          : existing_user \in existing }

\* POST /auth/change-password
change_password_result(table, n, state_user, current_password, new_password, salt) ==
    IF state_user = {} THEN [status |-> 401, table |-> table]
    ELSE LET user == CHOOSE u \in state_user : TRUE
             ph == hash_password(new_password, salt)
         IN  IF ~verify_password(user, current_password)
             THEN [status |-> 400, table |-> table]
             ELSE IF ph.raised # ""
             THEN [status |-> 500, table |-> table]
             ELSE [status |-> 200,
                   table |-> save(table, [user EXCEPT !.password_hash = ph.value], n)]

----------------------------------------------------------------------------
(* The application behind the middleware: clients register, read and edit  *)
(* their profile and change their password.  The clients keep at most      *)
(* MaxTokens of the tokens they were handed, and present those.            *)

\* the tokens the clients hold after being handed `token`
Kept(token) ==
    LET new == {[user_id |-> t.payload.sub, username |-> t.payload.username,
                 at |-> clock, token |-> t] : t \in token}
    IN  IF Cardinality(issued \cup new) <= MaxTokens
        THEN issued \cup new ELSE issued

\* the Authorization headers of the clients: none, a held token, the secret
ApiHeaders ==
    { {} } \cup { {Header(<<"B","e","a","r","e","r">>, TRUE, c)}
                    : c \in IssuedTokens \cup {Secret} }

ApiRequest(path, method, h) ==
    [path |-> path, method |-> method, auth_header |-> h]

ApiUsernames == { <<"b","o","b">>, <<"B","o","b">>, <<"a","m","y">> }

\* what the body's email of PUT /auth/me can be
OptionalEmails == { {} } \cup { {e} : e \in Emails }

ApiPasswords == { <<"a","b","c","d","e">>, <<"a","b","c","d","e","f">> }

InitApi ==
    /\ users = {}
    /\ nextUserId = 0
    /\ self = {}
    /\ lastSet = <<>>
    /\ clock = 0
    /\ issued = {}
    /\ mw_password = {Secret}
    /\ inflight = [c \in Calls |-> Idle]
    /\ notebooks = {}
    /\ nextNotebookId = 0
    /\ edges = {}
    /\ last = [op |-> "init"]

register_user(username, email, password, salt) ==
    /\ \E r \in {register_user_result(users, nextUserId, username, email,
                                      password, salt, clock)} :
        /\ Cardinality(r.table) <= MaxUsers
        /\ users' = r.table
        /\ nextUserId' = r.n
        /\ issued' = Kept(r.token)
        /\ lastSet' = IF r.status = 200
                      THEN (NewUserId(r.n) :> password) @@ lastSet
                      ELSE lastSet
        /\ last' = [op |-> "register_user", username |-> username,
                    email |-> email, password |-> password,
                    status |-> r.status, token |-> r.token]
    /\ UNCHANGED <<self, clock, authVars, notebookVars>>

login_user(username, password) ==
    /\ \E r \in login_user_results(users, nextUserId, username, password, clock) :
        /\ users' = r.table
        /\ issued' = Kept(r.token)
        /\ last' = [op |-> "login_user", username |-> username,
                    password |-> password, status |-> r.status,
                    token |-> r.token, user_id |-> {u.id : u \in r.user}]
    /\ UNCHANGED <<nextUserId, self, lastSet, clock, authVars, notebookVars>>

get_current_user(h) ==
    /\ \E d \in {dispatch_result(ApiRequest("/auth/me", "GET", h),
                                 mw_password, users, clock)} :
        \E r \in {IF d.forwarded THEN get_current_user_result(d.state_user)
                  ELSE [status |-> d.status, body |-> {}]} :
            last' = [op |-> "get_current_user", auth_header |-> h,
                     forwarded |-> d.forwarded, status |-> r.status,
                     user_id |-> {b.id : b \in r.body}]
    /\ UNCHANGED <<userVars, jwtVars, authVars, notebookVars>>

update_current_user(h, email) ==
    /\ \E d \in {dispatch_result(ApiRequest("/auth/me", "PUT", h),
                                 mw_password, users, clock)} :
        \E r \in IF d.forwarded
                 THEN update_current_user_results(users, nextUserId,
                                                  d.state_user, email)
                 ELSE {[status |-> d.status, table |-> users]} :
            /\ users' = r.table
            /\ last' = [op |-> "update_current_user", auth_header |-> h,
                        forwarded |-> d.forwarded,
                        user_id |-> d.state_user_id,
                        email |-> email, status |-> r.status]
    /\ UNCHANGED <<nextUserId, self, lastSet, jwtVars, authVars, notebookVars>>

change_password(h, current_password, new_password, salt) ==
    /\ \E d \in {dispatch_result(ApiRequest("/auth/change-password", "POST", h),
                                 mw_password, users, clock)} :
        \E r \in {IF d.forwarded
                  THEN change_password_result(users, nextUserId, d.state_user,
                                              current_password, new_password,
                                              salt)
                  ELSE [status |-> d.status, table |-> users]} :
            /\ users' = r.table
            /\ lastSet' = IF r.status = 200 /\ d.forwarded
                          THEN [id \in d.state_user_id |-> new_password]
                                   @@ lastSet
                          ELSE lastSet
            /\ last' = [op |-> "change_password", auth_header |-> h,
                        forwarded |-> d.forwarded,
                        user_id |-> d.state_user_id,
                        current_password |-> current_password,
                        new_password |-> new_password, status |-> r.status]
    /\ UNCHANGED <<nextUserId, self, jwtVars, authVars, notebookVars>>

NextApi ==
    \/ \E un \in ApiUsernames, em \in Emails, pw \in ApiPasswords :
           register_user(un, em, pw, "s1")
    \/ \E h \in ApiHeaders : get_current_user(h)
    \/ \E h \in ApiHeaders, em \in OptionalEmails : update_current_user(h, em)
    \/ \E h \in ApiHeaders, cur \in ApiPasswords, new \in ApiPasswords :
           change_password(h, cur, new, "s2")

SpecApi == InitApi /\ [][NextApi]_vars

\* accounts exist, an administrator switches them off and on, their owners
\* log in and present the tokens they hold, time passes
LoginNames == {a.username : a \in Accounts} \cup {a.email : a \in Accounts}

LoginPasswords == { AccountPassword, <<"w","r","o","n","g","1">> }

NextLogin ==
    \/ \E a \in Accounts :
           create_user(a.username, a.email, AccountPassword, "s1")
    \/ \E un \in {a.username : a \in Accounts} : load_user(un)
    \/ deactivate
    \/ activate
    \/ \E id \in LoginNames, pw \in LoginPasswords : login_user(id, pw)
    \/ advance_clock(HoursDelta(JWT_EXPIRATION_HOURS) + TicksPerSecond)
    \/ \E h \in ApiHeaders : dispatch(ApiRequest("/notebooks", "GET", h))

SpecLogin == InitApi /\ [][NextLogin]_vars

----------------------------------------------------------------------------
(* Properties of the authentication endpoints                              *)

\* the stored users the identifier of a login stands for: those of that
\* username, or when there is none those of that email
FoundBy(identifier) ==
    IF \E u \in users : u.username = Lower(identifier)
    THEN {u \in users : u.username = Lower(identifier)}
    ELSE {u \in users : u.email = Lower(identifier)}

\* C12: POST /auth/login answers 200 with a token only if a user is found by
\* the identifier, the password verifies against that user's hash and the
\* user is active; then the token's sub is the user's id and last_login is
\* set.  In every other case it answers 401, issues no token and changes no
\* stored user.
C12_LoginOnlyForActiveVerifiedUser ==
    [][last'.op = "login_user" =>
         /\ last'.status \in {200, 401}
         /\ (~ \E u \in FoundBy(last'.username) :
                 verify_password(u, last'.password) /\ u.is_active)
               => last'.status = 401
         /\ last'.status = 401 =>
               /\ last'.token = {}
               /\ users' = users
               /\ issued' = issued
         /\ last'.status = 200 =>
               \E u \in FoundBy(last'.username) :
                   /\ verify_password(u, last'.password)
                   /\ u.is_active
                   /\ last'.token # {}
                   /\ \A t \in last'.token :
                         get_user_id_from_token_at(t, clock) = {u.id}
                   /\ users' = (users \ {u}) \cup
                                 {[u EXCEPT !.last_login = {clock}]}]_vars

\* a user logged in some time after the accounts were made, and the stored
\* last_login is that time
C12_Witness ==
    /\ last.op = "login_user"
    /\ last.status = 200
    /\ clock > 0
    /\ \E u \in users :
          /\ last.user_id = {u.id}
          /\ u.last_login = {clock}
          /\ \A t \in last.token : t.payload.sub = u.id

\* C13: POST /auth/register with a username or an email that a stored user
\* has (compared case-insensitively) or with a password shorter than 6
\* characters answers 400, stores no user and issues no token; on success it
\* stores exactly one new user, active and no administrator, and returns a
\* token whose sub is that user's id.
C13_RegisterRejectsDuplicates ==
    [][last'.op = "register_user" =>
         /\ (\/ \E u \in users :
                   \/ SameIgnoringCase(u.username, last'.username)
                   \/ SameIgnoringCase(u.email, last'.email)
             \/ Len(last'.password) < MinPasswordLen)
               => /\ last'.status = 400
                  /\ users' = users
                  /\ last'.token = {}
                  /\ issued' = issued
         /\ last'.status = 200 =>
               \E new \in users' \ users :
                   /\ users' = users \cup {new}
                   /\ new.is_active
                   /\ ~new.is_admin
                   /\ \A u \in users : u.id # new.id
                   /\ last'.token # {}
                   /\ \A t \in last'.token :
                         get_user_id_from_token_at(t, clock) = {new.id}]_vars

\* the user a request of the API acts for
ActingUser(table, user_id) == {u \in table : {u.id} = user_id}

\* C18: through register and PUT /auth/me calls run one at a time every
\* stored email stays lower-case and no two users have emails that are equal
\* ignoring case; a PUT /auth/me with the email of another user answers 400
\* and changes no stored user, and one with the user's own email is accepted.
C18_EmailsStayNormalizedAndUnique ==
    [][/\ \A u \in users' : u.email = Lower(u.email)
       /\ \A u \in users' : \A v \in users' :
              u.id # v.id => ~SameIgnoringCase(u.email, v.email)
       /\ (/\ last'.op = "update_current_user"
           /\ last'.user_id # {}
           /\ ~IsFalsy(last'.email)) =>
              \A e \in last'.email :
                  /\ (\E v \in users : /\ {v.id} # last'.user_id
                                       /\ SameIgnoringCase(v.email, e))
                        => (last'.status = 400 /\ users' = users)
                  /\ (\E u \in ActingUser(users, last'.user_id) : u.email = e)
                        => last'.status = 200]_vars

\* C19: POST /auth/change-password changes the stored hash only for a
\* request with a user context whose current password verifies; without a
\* user context it answers 401, with a wrong current password 400, with a
\* new password shorter than 6 characters 400, and in these cases no stored
\* user changes.
C19_ChangePasswordFailures ==
    [][last'.op = "change_password" =>
         LET user == ActingUser(users, last'.user_id)
             verified == \E u \in user :
                             verify_password(u, last'.current_password)
         IN  /\ users' # users => (user # {} /\ verified)
             /\ user = {} => (last'.status = 401 /\ users' = users)
             /\ (user # {} /\ ~verified)
                   => (last'.status = 400 /\ users' = users)
             /\ (user # {} /\ verified
                   /\ Len(last'.new_password) < MinPasswordLen)
                   => (last'.status = 400 /\ users' = users)]_vars

\* the credential is a held token that verifies now and names stored user u
UnexpiredTokenOf(c, u) ==
    /\ c \in IssuedTokens
    /\ get_user_id_from_token_at(c, clock) = {u.id}

\* C16: while a stored user is switched off, every request that presents an
\* unexpired JWT of that user is answered 401 by the middleware and every
\* login for that user is answered 401; while the user is active (again)
\* the request with that same token is forwarded.
C16_DeactivationCutsTokensOff ==
    /\ last.op = "dispatch" =>
          \A h \in last.request.auth_header : \A u \in users :
              UnexpiredTokenOf(h.cred, u) =>
                  /\ ~u.is_active => (last.status = 401 /\ ~last.forwarded)
                  /\ u.is_active => (last.forwarded /\ last.state_user_id = {u.id})
    /\ last.op = "login_user" =>
          /\ (\A u \in FoundBy(last.username) : ~u.is_active)
                => (last.status = 401 /\ last.token = {})
          /\ \A u \in users : last.user_id = {u.id} => u.is_active

\* the token of a user who was switched off after logging in was presented,
\* before it expired, and turned away
C16_Witness ==
    /\ last.op = "dispatch"
    /\ last.status = 401
    /\ \E h \in last.request.auth_header : \E u \in users :
          /\ UnexpiredTokenOf(h.cred, u)
          /\ ~u.is_active
          /\ u.last_login # {}

----------------------------------------------------------------------------
(* create_user and PUT /auth/me as they run on the event loop: a call runs *)
(* up to its next await, and other calls run while it is suspended.        *)
(* Between two awaits nothing else runs.                                   *)

RaceUsernames == { <<"b","o","b">>, <<"a","m","y">> }

RaceEmails == { <<"a","@","x">>, <<"b","@","x">> }

RacePasswords == { AccountPassword, <<"a","b","c","d","e">> }

Resume(call, state) == inflight' = [inflight EXCEPT ![call] = state]

\* create_user up to the answer of "await cls.get_by_username(username)"
create_user_get_by_username(call, username, email, password) ==
    /\ inflight[call] = Idle
    /\ LET existing_user == get_by_username(users, username)
       IN  IF existing_user # {}
           THEN /\ Resume(call, Idle)
                /\ last' = [op |-> "create_user", call |-> call,
                            at |-> "get_by_username",
                            raised |-> "InvalidInputError"]
           ELSE /\ Resume(call, [pc |-> "get_by_email", username |-> username,
                                 email |-> email, password |-> password])
                /\ last' = [op |-> "create_user", call |-> call,
                            at |-> "get_by_username", raised |-> ""]
    /\ UNCHANGED <<userVars, jwtVars, mw_password, notebookVars>>

\* from the answer of "await cls.get_by_email(email)" to "await user.save()"
create_user_get_by_email(call, salt) ==
    /\ inflight[call].pc = "get_by_email"
    /\ LET c == inflight[call]
           existing_email == get_by_email(users, c.email)
           ph == hash_password(c.password, salt)
           obj == User(Lower(c.username), Lower(c.email), ph.value, FALSE)
           raised == IF existing_email # {} THEN "InvalidInputError"
                     ELSE IF ph.raised # "" THEN ph.raised
                     ELSE obj.raised
       IN  /\ IF raised # ""
              THEN Resume(call, Idle)
              ELSE Resume(call, [pc |-> "save", user |-> obj.value])
           /\ last' = [op |-> "create_user", call |-> call,
                       at |-> "get_by_email", raised |-> raised]
    /\ UNCHANGED <<userVars, jwtVars, mw_password, notebookVars>>

\* "await user.save()" of create_user
create_user_save(call) ==
    /\ inflight[call].pc = "save"
    /\ Cardinality(users) < MaxUsers
    /\ \E u \in inflight[call].user :
          users' = save(users, u, nextUserId + 1)
    /\ nextUserId' = nextUserId + 1
    /\ Resume(call, Idle)
    /\ last' = [op |-> "create_user", call |-> call, at |-> "save",
                raised |-> ""]
    /\ UNCHANGED <<self, lastSet, jwtVars, mw_password, notebookVars>>

\* PUT /auth/me of stored user `user` (request.state.user) up to the answer
\* of "await User.get_by_email(user_update.email)"
update_current_user_get_by_email(call, user, email) ==
    /\ inflight[call] = Idle
    /\ \E existing_user \in
           IF get_by_email(users, email) = {} THEN { {} }
           ELSE {{x} : x \in get_by_email(users, email)} :
          IF \E x \in existing_user : x.id # user.id
          THEN /\ Resume(call, Idle)
               /\ last' = [op |-> "update_current_user", call |-> call,
                           at |-> "get_by_email", status |-> 400]
          ELSE /\ Resume(call, [pc |-> "user.save",
                                user |-> {[user EXCEPT !.email = email]}])
               /\ last' = [op |-> "update_current_user", call |-> call,
                           at |-> "get_by_email", status |-> 0]
    /\ UNCHANGED <<userVars, jwtVars, mw_password, notebookVars>>

\* "await user.save()" of PUT /auth/me
update_current_user_save(call) ==
    /\ inflight[call].pc = "user.save"
    /\ \E u \in inflight[call].user : users' = save(users, u, nextUserId)
    /\ Resume(call, Idle)
    /\ last' = [op |-> "update_current_user", call |-> call, at |-> "save",
                status |-> 200]
    /\ UNCHANGED <<nextUserId, self, lastSet, jwtVars, mw_password,
                   notebookVars>>

NextRace ==
    \/ \E c \in Calls, un \in RaceUsernames, em \in RaceEmails,
          pw \in RacePasswords : create_user_get_by_username(c, un, em, pw)
    \/ \E c \in Calls : create_user_get_by_email(c, "s1")
    \/ \E c \in Calls : create_user_save(c)
    \/ \E c \in Calls, u \in users, em \in RaceEmails :
           update_current_user_get_by_email(c, u, em)
    \/ \E c \in Calls : update_current_user_save(c)

SpecRace == Init /\ [][NextRace]_vars

\* C15: in every reachable state, also when create_user calls, or a
\* create_user call and a PUT /auth/me, interleave at their awaits between
\* the existence check and the save, no two stored users share a username
\* and no two stored users share an email.
C15_UniqueUnderInterleaving ==
    \A u \in users : \A v \in users :
        u.id # v.id => (u.username # v.username /\ u.email # v.email)

----------------------------------------------------------------------------
(* api/routers/notebooks.py                                                *)
(*                                                                         *)
(* user_id is request.state.user_id as the handler reads it (Optional).    *)
(* A reference edge made by RELATE $source->reference->$notebook has       *)
(* in = the source and out = the notebook.                                 *)

NewNotebookId(n) == "notebook:" \o ToString(n)

\* the id RELATE gives a new edge: one that no edge of the table has
NewEdgeId(refs) ==
    "reference:" \o ToString(CHOOSE n \in 1..(Cardinality(refs) + 1) :
        /\ \A e \in refs : e.id # "reference:" \o ToString(n)
        /\ \A m \in 1..(n - 1) :
              \E e \in refs : e.id = "reference:" \o ToString(m))

\* the "source" table; no handler of this router changes it
SourceTable == { [id |-> "source:1", user |-> {"user:1"}] }

\* Notebook.get(notebook_id)
Notebook_get(table, notebook_id) == {nb \in table : nb.id = notebook_id}

\* Source.get(source_id)
Source_get(source_id) == {src \in SourceTable : src.id = source_id}

\* notebook.save() of a loaded notebook: the record of that id is replaced
Notebook_save(table, nb) == {r \in table : r.id # nb.id} \cup {nb}

\* notebook.delete(): the record goes, and with it the edges at the record
Notebook_delete(table, refs, nb) ==
    [notebooks |-> {r \in table : r.id # nb.id},
     edges |-> {e \in refs : e.in # nb.id /\ e.out # nb.id}]

\* "count(<-reference.in) as source_count": the edges that end at the notebook
source_count(refs, nb) == Cardinality({e \in refs : e.out = nb.id})

\* NotebookResponse(...) of a row selected with its counts
NotebookResponse(refs, nb) ==
    [id |-> nb.id, name |-> nb.name, archived |-> nb.archived,
     source_count |-> source_count(refs, nb)]

\* the ownership test of the handlers: "if user_id:" and then
\* "if notebook_user_str and notebook_user_str != user_id"
AccessDenied(user_id, owner) ==
    user_id # {} /\ owner # {} /\ owner # user_id

\* get_notebooks without "WHERE user = $user_id"
get_notebooks_result_unfiltered(table, refs, user_id, archived) ==
    LET filtered == IF archived # {}
                    THEN {nb \in table : {nb.archived} = archived}
                    ELSE table
    IN  [status |-> 200, body |-> {NotebookResponse(refs, nb) : nb \in filtered}]

\* GET /notebooks
get_notebooks_result(table, refs, user_id, archived) ==
    LET result == IF user_id # {}
                  THEN {nb \in table : nb.user = user_id}
                  ELSE table
        filtered == IF archived # {}
                    THEN {nb \in result : {nb.archived} = archived}
                    ELSE result
    IN  [status |-> 200, body |-> {NotebookResponse(refs, nb) : nb \in filtered}]

\* POST /notebooks
create_notebook_result(table, nn, user_id, name) ==
    LET new_notebook == [id |-> NewNotebookId(nn + 1), name |-> name,
                         archived |-> FALSE, user |-> user_id]
    IN  [status |-> 200, id |-> new_notebook.id,
         notebooks |-> table \cup {new_notebook}, nextNotebookId |-> nn + 1]

\* get_notebook without "if notebook_user_str and notebook_user_str != user_id"
get_notebook_result_no_access_check(table, refs, user_id, notebook_id) ==
    LET result == Notebook_get(table, notebook_id)
    IN  IF result = {} THEN [status |-> 404, body |-> {}]
        ELSE LET nb == CHOOSE x \in result : TRUE
             IN  [status |-> 200, body |-> {NotebookResponse(refs, nb)}]

\* GET /notebooks/{notebook_id}
get_notebook_result(table, refs, user_id, notebook_id) ==
    LET result == Notebook_get(table, notebook_id)
    IN  IF result = {} THEN [status |-> 404, body |-> {}]
        ELSE LET nb == CHOOSE x \in result : TRUE
             IN  IF AccessDenied(user_id, nb.user)
                 THEN [status |-> 403, body |-> {}]
                 ELSE [status |-> 200, body |-> {NotebookResponse(refs, nb)}]

\* PUT /notebooks/{notebook_id}; name and archived are Optional
update_notebook_result(table, user_id, notebook_id, name, archived) ==
    LET found == Notebook_get(table, notebook_id)
    IN  IF found = {} THEN [status |-> 404, notebooks |-> table]
        ELSE LET notebook == CHOOSE x \in found : TRUE
                 named == IF name # {}
                          THEN [notebook EXCEPT !.name = CHOOSE x \in name : TRUE]
                          ELSE notebook
                 updated == IF archived # {}
                            THEN [named EXCEPT
                                    !.archived = CHOOSE x \in archived : TRUE]
                            ELSE named
             IN  IF AccessDenied(user_id, notebook.user)
                 THEN [status |-> 403, notebooks |-> table]
                 ELSE [status |-> 200,
                       notebooks |-> Notebook_save(table, updated)]

\* POST /notebooks/{notebook_id}/sources/{source_id}
add_source_to_notebook_result(table, refs, user_id, notebook_id, source_id) ==
    LET notebook == Notebook_get(table, notebook_id)
        source == Source_get(source_id)
        existing_ref == {e \in refs : e.out = source_id /\ e.in = notebook_id}
        unchanged(status) == [status |-> status, edges |-> refs]
    IN  IF notebook = {} THEN unchanged(404)
        ELSE IF \E nb \in notebook : AccessDenied(user_id, nb.user)
        THEN unchanged(403)
        ELSE IF source = {} THEN unchanged(404)
        ELSE IF \E src \in source : AccessDenied(user_id, src.user)
        THEN unchanged(403)
        ELSE IF existing_ref = {}
        THEN [status |-> 200,
              edges |-> refs \cup {[id |-> NewEdgeId(refs),
                                    in |-> source_id, out |-> notebook_id]}]
        ELSE unchanged(200)

\* remove_source_from_notebook with in and out of the DELETE swapped
remove_source_from_notebook_result_swapped(table, refs, user_id, notebook_id, source_id) ==
    LET notebook == Notebook_get(table, notebook_id)
    IN  IF notebook = {} THEN [status |-> 404, edges |-> refs]
        ELSE IF \E nb \in notebook : AccessDenied(user_id, nb.user)
        THEN [status |-> 403, edges |-> refs]
        ELSE [status |-> 200,
              edges |-> {e \in refs :
                            ~(e.out = source_id /\ e.in = notebook_id)}]

\* DELETE /notebooks/{notebook_id}/sources/{source_id}
remove_source_from_notebook_result(table, refs, user_id, notebook_id, source_id) ==
    LET notebook == Notebook_get(table, notebook_id)
    IN  IF notebook = {} THEN [status |-> 404, edges |-> refs]
        ELSE IF \E nb \in notebook : AccessDenied(user_id, nb.user)
        THEN [status |-> 403, edges |-> refs]
        ELSE [status |-> 200,
              edges |-> {e \in refs :
                            ~(e.out = notebook_id /\ e.in = source_id)}]

\* delete_notebook without the ownership test
delete_notebook_result_no_access_check(table, refs, user_id, notebook_id) ==
    LET found == Notebook_get(table, notebook_id)
    IN  IF found = {} THEN [status |-> 404, notebooks |-> table, edges |-> refs]
        ELSE LET notebook == CHOOSE x \in found : TRUE
                 after == Notebook_delete(table, refs, notebook)
             IN  [status |-> 200, notebooks |-> after.notebooks,
                  edges |-> after.edges]

\* DELETE /notebooks/{notebook_id}
delete_notebook_result(table, refs, user_id, notebook_id) ==
    LET found == Notebook_get(table, notebook_id)
    IN  IF found = {} THEN [status |-> 404, notebooks |-> table, edges |-> refs]
        ELSE LET notebook == CHOOSE x \in found : TRUE
                 after == Notebook_delete(table, refs, notebook)
             IN  IF AccessDenied(user_id, notebook.user)
                 THEN [status |-> 403, notebooks |-> table, edges |-> refs]
                 ELSE [status |-> 200, notebooks |-> after.notebooks,
                       edges |-> after.edges]

----------------------------------------------------------------------------
(* The notebook handlers as steps; each request brings its user context    *)

MaxNotebooks == 1
MaxEdges == 2

\* request.state.user_id: absent or None, or the id of the token's user
UserContexts == { {}, {"user:1"}, {"user:2"} }

NotebookIds == {NewNotebookId(n) : n \in 1..MaxNotebooks}

\* source:9 is no record
SourceIds == {"source:1", "source:9"}

OptionalBool == { {}, {TRUE}, {FALSE} }

OptionalName == { {}, {"untitled"} }

get_notebooks(user_id, archived) ==
    /\ \E r \in {get_notebooks_result(notebooks, edges, user_id, archived)} :
        last' = [op |-> "get_notebooks", user_id |-> user_id,
                 archived |-> archived, status |-> r.status, body |-> r.body]
    /\ UNCHANGED <<notebookVars, userVars, jwtVars, authVars>>

create_notebook(user_id, name) ==
    /\ nextNotebookId < MaxNotebooks
    /\ \E r \in {create_notebook_result(notebooks, nextNotebookId, user_id, name)} :
        /\ notebooks' = r.notebooks
        /\ nextNotebookId' = r.nextNotebookId
        /\ last' = [op |-> "create_notebook", user_id |-> user_id,
                    notebook_id |-> r.id, status |-> r.status]
    /\ UNCHANGED <<edges, userVars, jwtVars, authVars>>

get_notebook(user_id, notebook_id) ==
    /\ \E r \in {get_notebook_result(notebooks, edges, user_id, notebook_id)} :
        last' = [op |-> "get_notebook", user_id |-> user_id,
                 notebook_id |-> notebook_id, status |-> r.status]
    /\ UNCHANGED <<notebookVars, userVars, jwtVars, authVars>>

update_notebook(user_id, notebook_id, name, archived) ==
    /\ \E r \in {update_notebook_result(notebooks, user_id, notebook_id,
                                        name, archived)} :
        /\ notebooks' = r.notebooks
        /\ last' = [op |-> "update_notebook", user_id |-> user_id,
                    notebook_id |-> notebook_id, status |-> r.status]
    /\ UNCHANGED <<nextNotebookId, edges, userVars, jwtVars, authVars>>

add_source_to_notebook(user_id, notebook_id, source_id) ==
    /\ \E r \in {add_source_to_notebook_result(notebooks, edges, user_id,
                                               notebook_id, source_id)} :
        /\ Cardinality(r.edges) <= MaxEdges
        /\ edges' = r.edges
        /\ last' = [op |-> "add_source_to_notebook", user_id |-> user_id,
                    notebook_id |-> notebook_id, source_id |-> source_id,
                    status |-> r.status]
    /\ UNCHANGED <<notebooks, nextNotebookId, userVars, jwtVars, authVars>>

remove_source_from_notebook(user_id, notebook_id, source_id) ==
    /\ \E r \in {remove_source_from_notebook_result(notebooks, edges, user_id,
                                                    notebook_id, source_id)} :
        /\ edges' = r.edges
        /\ last' = [op |-> "remove_source_from_notebook", user_id |-> user_id,
                    notebook_id |-> notebook_id, source_id |-> source_id,
                    status |-> r.status,
                    after |-> IF /\ last.op = "add_source_to_notebook"
                                 /\ last.status = 200
                                 /\ last.notebook_id = notebook_id
                                 /\ last.source_id = source_id
                              THEN "add_source_to_notebook" ELSE ""]
    /\ UNCHANGED <<notebooks, nextNotebookId, userVars, jwtVars, authVars>>

delete_notebook(user_id, notebook_id) ==
    /\ \E r \in {delete_notebook_result(notebooks, edges, user_id, notebook_id)} :
        /\ notebooks' = r.notebooks
        /\ edges' = r.edges
        /\ last' = [op |-> "delete_notebook", user_id |-> user_id,
                    notebook_id |-> notebook_id, status |-> r.status]
    /\ UNCHANGED <<nextNotebookId, userVars, jwtVars, authVars>>

NextNotebooks ==
    \/ \E u \in UserContexts, a \in OptionalBool : get_notebooks(u, a)
    \/ \E u \in UserContexts : create_notebook(u, "untitled")
    \/ \E u \in UserContexts, n \in NotebookIds : get_notebook(u, n)
    \/ \E u \in UserContexts, n \in NotebookIds,
          name \in OptionalName, a \in OptionalBool :
           update_notebook(u, n, name, a)
    \/ \E u \in UserContexts, n \in NotebookIds, src \in SourceIds :
           add_source_to_notebook(u, n, src)
    \/ \E u \in UserContexts, n \in NotebookIds, src \in SourceIds :
           remove_source_from_notebook(u, n, src)
    \/ \E u \in UserContexts, n \in NotebookIds : delete_notebook(u, n)

SpecNotebooks == Init /\ [][NextNotebooks]_vars

----------------------------------------------------------------------------
(* Properties of the notebook handlers                                     *)

\* the handlers that take a notebook id and test its owner
OwnerCheckedOps ==
    {"get_notebook", "update_notebook", "delete_notebook",
     "add_source_to_notebook", "remove_source_from_notebook"}

\* the step is a request with a user context for a notebook of the table
RequestOnNotebook(nb) ==
    /\ last'.op \in OwnerCheckedOps
    /\ last'.user_id # {}
    /\ nb.id = last'.notebook_id

Denied403 ==
    /\ last'.status = 403
    /\ notebooks' = notebooks
    /\ edges' = edges

\* C8 as stated: with a user context the five handlers proceed on a notebook
\* only if its user field equals the requesting user id; otherwise they
\* answer 403 and change no notebook and no reference edge.
C8_OnlyOwnerProceeds ==
    [][\A nb \in notebooks :
          RequestOnNotebook(nb) => (nb.user = last'.user_id \/ Denied403)]_vars

\* C8 amended: with a user context the five handlers proceed on a notebook
\* only if it has no owner or its user field equals the requesting user id;
\* on a notebook of another owner they answer 403 and change no notebook and
\* no reference edge.
C8_OtherOwnersNotebookDenied ==
    [][\A nb \in notebooks :
          RequestOnNotebook(nb) =>
              /\ last'.status = 200 => nb.user \in {{}, last'.user_id}
              /\ nb.user \notin {{}, last'.user_id} => Denied403]_vars

\* a request with a user context was answered 403 on another owner's notebook
C8_Witness ==
    /\ last.op \in OwnerCheckedOps
    /\ last.user_id # {}
    /\ last.status = 403
    /\ \E nb \in notebooks :
          /\ nb.id = last.notebook_id
          /\ nb.user \notin {{}, last.user_id}

\* the notebooks GET /notebooks is to return for a user context and a filter
VisibleTo(user_id, archived) ==
    {nb \in notebooks :
        /\ user_id # {} => nb.user = user_id
        /\ archived # {} => nb.archived \in archived}

\* C9: GET /notebooks with a user context u returns exactly the notebooks
\* whose user field is u, restricted to the archived value when one is given,
\* and with no user context all notebooks under the same restriction; a
\* notebook made by create_notebook carries the request's user id, or no
\* owner when the request has no user context.
C9_ListIsOwnersNotebooks ==
    /\ last.op = "get_notebooks" =>
          /\ last.status = 200
          /\ {b.id : b \in last.body} =
                {nb.id : nb \in VisibleTo(last.user_id, last.archived)}
    /\ last.op = "create_notebook" =>
          \E nb \in notebooks :
              nb.id = last.notebook_id /\ nb.user = last.user_id

\* a user listed the notebooks while the table held a notebook that is not
\* theirs, and it was left out
C9_Witness ==
    /\ last.op = "get_notebooks"
    /\ last.user_id # {}
    /\ \E nb \in notebooks :
          /\ nb.user # last.user_id
          /\ \A b \in last.body : b.id # nb.id

\* the reference edges that connect source s to notebook n
EdgesBetween(s, n) == {e \in edges : e.in = s /\ e.out = n}

\* the sources linked to notebook n
SourcesOf(n) == {e.in : e \in {x \in edges : x.out = n}}

\* C10: after add_source_to_notebook succeeded for notebook n and source s,
\* once or several times in a row, exactly one reference edge connects s to
\* n and the source_count of n counts s once.
C10_AddSourceIdempotent ==
    (last.op = "add_source_to_notebook" /\ last.status = 200) =>
        /\ Cardinality(EdgesBetween(last.source_id, last.notebook_id)) = 1
        /\ \A nb \in notebooks :
              nb.id = last.notebook_id =>
                  source_count(edges, nb) = Cardinality(SourcesOf(nb.id))

\* C11: a successful add_source_to_notebook(n, s) adds reference edges from
\* s to n only, and after a successful remove_source_from_notebook(n, s)
\* that follows it no reference edge connects s to n, while every reference
\* edge of another (notebook, source) pair is as it was.
C11_LinkUnlinkRoundTrip ==
    [][/\ (last'.op = "add_source_to_notebook" /\ last'.status = 200) =>
            /\ edges \subseteq edges'
            /\ edges' \ edges \subseteq
                   {e \in edges' : e.in = last'.source_id
                                   /\ e.out = last'.notebook_id}
            /\ \E e \in edges' : e.in = last'.source_id
                                 /\ e.out = last'.notebook_id
       /\ (last'.op = "remove_source_from_notebook" /\ last'.status = 200) =>
            /\ \A e \in edges' : ~(e.in = last'.source_id
                                   /\ e.out = last'.notebook_id)
            /\ edges' = {e \in edges : ~(e.in = last'.source_id
                                         /\ e.out = last'.notebook_id)}]_vars

\* a source was linked to a notebook, and the unlink that followed succeeded
\* and left them without an edge
C11_Witness ==
    /\ last.op = "remove_source_from_notebook"
    /\ last.status = 200
    /\ last.after = "add_source_to_notebook"
    /\ last.source_id \in {src.id : src \in SourceTable}
    /\ EdgesBetween(last.source_id, last.notebook_id) = {}

----------------------------------------------------------------------------
(* The notebook routes behind the middleware.  A request goes through      *)
(* PasswordAuthMiddleware.dispatch; when dispatch calls call_next the      *)
(* handler runs with the request.state dispatch left, and the handler's    *)
(* response is the response; otherwise dispatch's 401 is the response.     *)
(* The requests arrive while both tokens are within their lifetime; what   *)
(* dispatch does with an expired token is checked under SpecAuth.          *)

\* the application once bob and then amy registered (POST /auth/register, at
\* time 0) and each client holds the token it was handed;
\* OPEN_NOTEBOOK_PASSWORD is unset or is the pass phrase
InitApp ==
    \E bob \in {register_user_result({}, 0, <<"b","o","b">>, <<"b","@","x">>,
                                      AccountPassword, "s1", 0)} :
    \E amy \in {register_user_result(bob.table, bob.n, <<"a","m","y">>,
                                      <<"a","@","x">>, AccountPassword,
                                      "s1", 0)} :
        /\ users = amy.table
        /\ nextUserId = amy.n
        /\ self = {}
        /\ lastSet = <<>>
        /\ clock = 0
        /\ issued = {[user_id |-> t.payload.sub, username |-> t.payload.username,
                      at |-> 0, token |-> t] : t \in bob.token \cup amy.token}
        /\ mw_password \in { {}, {Secret} }
        /\ inflight = [c \in Calls |-> Idle]
        /\ notebooks = {}
        /\ nextNotebookId = 0
        /\ edges = {}
        /\ last = [op |-> "init"]

\* dispatch on the request as the application is now
Through(request) == dispatch_result(request, mw_password, users, clock)

\* what the client learns and what is recorded of one request
Response(op, h, d, status, notebook_id, returned) ==
    [op |-> op, auth_header |-> h, forwarded |-> d.forwarded,
     status |-> IF d.forwarded THEN status ELSE d.status,
     notebook_id |-> notebook_id,
     returned |-> IF d.forwarded THEN returned ELSE {}]

dispatch_get_notebooks(h, archived) ==
    /\ \E d \in {Through(ApiRequest("/notebooks", "GET", h))} :
       \E r \in {get_notebooks_result(notebooks, edges, d.state_user_id,
                                      archived)} :
           last' = Response("get_notebooks", h, d, r.status, "",
                            {b.id : b \in r.body})
    /\ UNCHANGED <<notebookVars, userVars, jwtVars, authVars>>

dispatch_create_notebook(h, name) ==
    /\ nextNotebookId < MaxNotebooks
    /\ \E d \in {Through(ApiRequest("/notebooks", "POST", h))} :
       \E r \in {create_notebook_result(notebooks, nextNotebookId,
                                        d.state_user_id, name)} :
           /\ notebooks' = IF d.forwarded THEN r.notebooks ELSE notebooks
           /\ nextNotebookId' = IF d.forwarded THEN r.nextNotebookId
                                ELSE nextNotebookId
           /\ last' = Response("create_notebook", h, d, r.status, r.id, {r.id})
    /\ UNCHANGED <<edges, userVars, jwtVars, authVars>>

dispatch_get_notebook(h, notebook_id) ==
    /\ \E d \in {Through(ApiRequest("/notebooks/{notebook_id}", "GET", h))} :
       \E r \in {get_notebook_result(notebooks, edges, d.state_user_id,
                                     notebook_id)} :
           last' = Response("get_notebook", h, d, r.status, notebook_id,
                            {b.id : b \in r.body})
    /\ UNCHANGED <<notebookVars, userVars, jwtVars, authVars>>

dispatch_update_notebook(h, notebook_id, name, archived) ==
    /\ \E d \in {Through(ApiRequest("/notebooks/{notebook_id}", "PUT", h))} :
       \E r \in {update_notebook_result(notebooks, d.state_user_id,
                                        notebook_id, name, archived)} :
           /\ notebooks' = IF d.forwarded THEN r.notebooks ELSE notebooks
           /\ last' = Response("update_notebook", h, d, r.status, notebook_id,
                               IF r.status = 200 THEN {notebook_id} ELSE {})
    /\ UNCHANGED <<nextNotebookId, edges, userVars, jwtVars, authVars>>

dispatch_add_source_to_notebook(h, notebook_id, source_id) ==
    /\ \E d \in {Through(ApiRequest(
                     "/notebooks/{notebook_id}/sources/{source_id}",
                     "POST", h))} :
       \E r \in {add_source_to_notebook_result(notebooks, edges,
                     d.state_user_id, notebook_id, source_id)} :
           /\ Cardinality(r.edges) <= MaxEdges
           /\ edges' = IF d.forwarded THEN r.edges ELSE edges
           /\ last' = Response("add_source_to_notebook", h, d, r.status,
                               notebook_id, {})
    /\ UNCHANGED <<notebooks, nextNotebookId, userVars, jwtVars, authVars>>

dispatch_remove_source_from_notebook(h, notebook_id, source_id) ==
    /\ \E d \in {Through(ApiRequest(
                     "/notebooks/{notebook_id}/sources/{source_id}",
                     "DELETE", h))} :
       \E r \in {remove_source_from_notebook_result(notebooks, edges,
                     d.state_user_id, notebook_id, source_id)} :
           /\ edges' = IF d.forwarded THEN r.edges ELSE edges
           /\ last' = Response("remove_source_from_notebook", h, d, r.status,
                               notebook_id, {})
    /\ UNCHANGED <<notebooks, nextNotebookId, userVars, jwtVars, authVars>>

dispatch_delete_notebook(h, notebook_id) ==
    /\ \E d \in {Through(ApiRequest("/notebooks/{notebook_id}", "DELETE", h))} :
       \E r \in {delete_notebook_result(notebooks, edges, d.state_user_id,
                                        notebook_id)} :
           /\ notebooks' = IF d.forwarded THEN r.notebooks ELSE notebooks
           /\ edges' = IF d.forwarded THEN r.edges ELSE edges
           /\ last' = Response("delete_notebook", h, d, r.status,
                               notebook_id, {})
    /\ UNCHANGED <<nextNotebookId, userVars, jwtVars, authVars>>

NextApp ==
    \/ \E h \in ApiHeaders : dispatch_get_notebooks(h, {})
    \/ \E h \in ApiHeaders : dispatch_create_notebook(h, "untitled")
    \/ \E h \in ApiHeaders, n \in NotebookIds : dispatch_get_notebook(h, n)
    \/ \E h \in ApiHeaders, n \in NotebookIds :
           dispatch_update_notebook(h, n, {}, {TRUE})
    \/ \E h \in ApiHeaders, n \in NotebookIds :
           dispatch_add_source_to_notebook(h, n, "source:1")
    \/ \E h \in ApiHeaders, n \in NotebookIds :
           dispatch_remove_source_from_notebook(h, n, "source:1")
    \/ \E h \in ApiHeaders, n \in NotebookIds : dispatch_delete_notebook(h, n)

SpecApp == InitApp /\ [][NextApp]_vars

----------------------------------------------------------------------------
(* Properties of the notebook routes behind the middleware                 *)

NotebookRoutes ==
    {"get_notebooks", "create_notebook", "get_notebook", "update_notebook",
     "add_source_to_notebook", "remove_source_from_notebook",
     "delete_notebook"}

\* the reference edges at notebook nb
EdgesAt(refs, nb) == {e \in refs : e.in = nb.id \/ e.out = nb.id}

\* the step returned notebook nb to the client, or changed or removed its
\* record, or changed the reference edges at it
ReadOrModified(nb) ==
    \/ nb.id \in last'.returned
    \/ nb \notin notebooks'
    \/ EdgesAt(edges', nb) # EdgesAt(edges, nb)

\* the header is "Bearer <token>" with a token that verifies now and whose
\* sub is the stored, active user `owner`
ByJwtOf(auth_header, owner) ==
    \E h \in auth_header :
        /\ BearerForm(h)
        /\ \E p \in verify_token_at(h.cred, clock).value :
              \E u \in users : u.id = p.sub /\ u.is_active /\ owner = {u.id}

\* the header is "Bearer <the configured shared secret>"
BySharedSecret(auth_header) ==
    \E h \in auth_header :
        BearerForm(h) /\ YieldsNoUserId(h.cred) /\ IsTheSharedSecret(h.cred)

\* C21 as stated: a notebook owned by user A is returned by GET /notebooks or
\* GET /notebooks/{id}, or modified by update, delete, link or unlink, only
\* for a request that presented a valid JWT of A or the configured shared
\* secret; a request that presented no credential never reads or modifies a
\* notebook that has an owner.
C21_OwnerOrSecretOnly ==
    [][last'.op \in NotebookRoutes =>
          \A nb \in notebooks :
              (nb.user # {} /\ ReadOrModified(nb)) =>
                  /\ \/ ByJwtOf(last'.auth_header, nb.user)
                     \/ BySharedSecret(last'.auth_header)
                  /\ ~HeaderIsFalsy(last'.auth_header)]_vars

\* C21 amended: a notebook owned by user A is returned or modified only for a
\* request that presented a valid JWT of A or the configured shared secret,
\* or, when no shared secret is configured, no Authorization header (or an
\* empty one); while a shared secret is configured, a request without a
\* credential is answered 401 and reads or modifies no notebook.
C21_OwnerSecretOrOpenMode ==
    [][last'.op \in NotebookRoutes =>
          /\ \A nb \in notebooks :
                (nb.user # {} /\ ReadOrModified(nb)) =>
                    \/ ByJwtOf(last'.auth_header, nb.user)
                    \/ BySharedSecret(last'.auth_header)
                    \/ /\ HeaderIsFalsy(last'.auth_header)
                       /\ PasswordIsFalsy(mw_password)
          /\ (HeaderIsFalsy(last'.auth_header) /\ ~PasswordIsFalsy(mw_password))
                =>  /\ last'.status = 401
                    /\ last'.returned = {}
                    /\ notebooks' = notebooks
                    /\ edges' = edges]_vars

\* a request with the valid token of one user for the notebook of another
\* passed the middleware and was answered 403 by the handler
C21_Witness ==
    /\ last.op = "get_notebook"
    /\ last.forwarded
    /\ last.status = 403
    /\ last.returned = {}
    /\ \E nb \in notebooks :
          /\ nb.id = last.notebook_id
          /\ nb.user # {}
          /\ ~ByJwtOf(last.auth_header, nb.user)
          /\ \E u \in users : ByJwtOf(last.auth_header, {u.id})

====
